---- MODULE Spec2Model ----
(***************************************************************************)
(* A model of the tagged template `html` of src/html.js.                   *)
(*                                                                         *)
(* A JavaScript string is a sequence of one-character strings, so that     *)
(* "a\n b" is <<"a", "\n", " ", "b">>.  A template call html`..${v}..` is   *)
(* the call html(strings, ...values): `strings` the literal segments and   *)
(* `values` the interpolated values.  One invocation runs from pc = "loop" *)
(* to pc = "done", one action per statement (or loop iteration) of the     *)
(* function; the invocation's locals are the variables.                    *)
(***************************************************************************)
EXTENDS Integers, Sequences, FiniteSets, TLC

VARIABLES
    arrays,       \* the arrays of a BlogPage and of its caller, by identity
    page,         \* the list fields of a BlogPage: which array each one is
    passed,       \* history: the array last passed to each list setter
    escCall,      \* a call of esc (lib.js): argument, scope, outcome
    templates,    \* the segment arrays of the call sites, shared by their calls
    invocations,  \* the calls of html in progress side by side, with their locals
    strings,    \* the literal segments (argument `strings`)
    values,     \* the interpolated values (rest argument `values`)
    pc,         \* position in html()
    i,          \* index of the for loop (0-based, as in the code)
    parts,      \* const parts = []
    combined,   \* let combined
    lines,      \* const lines
    minIndent,  \* const minIndent; NotComputed until line 56 runs
    dedented,   \* const dedented
    result      \* the returned string

vars == <<arrays, page, passed, escCall, templates, invocations, strings, values, pc, i, parts, combined, lines, minIndent, dedented, result>>

-----------------------------------------------------------------------------
(* Bounds of the input families.                                           *)

MaxLen == 4         \* single segments: every string up to this length
MaxLines == 4       \* single segments: texts of up to this many lines
MaxSegLen == 2      \* two segments: the first segment, up to this length
MaxValLen == 3      \* two segments: every value up to this length
MaxSegs == 3        \* small calls: number of segments
MaxVals == 2        \* small calls: number of values

-----------------------------------------------------------------------------
(* Characters.                                                             *)

SP == " "
TAB == "\t"
LF == "\n"
CR == "\r"
FF == "\f"

\* The character class [ \t] of the regular expressions of html().
SpaceTab == {SP, TAB}

\* What String.prototype.trim() removes (WhiteSpace and LineTerminator of
\* ECMAScript), as far as the model's characters go: form feed is one of them.
TrimSpace == {SP, TAB, FF, LF, CR}

\* minIndent before `const minIndent = ...` has run.
NotComputed == -1

-----------------------------------------------------------------------------
(* String helpers of the JavaScript runtime used by html().                *)

MinOfSet(S) == CHOOSE m \in S : \A x \in S : m <= x
MaxOfSet(S) == CHOOSE m \in S : \A x \in S : x <= m

\* The longest prefix of s whose characters are all in cls: the match of
\* /^[cls]*/.
LeadingRun(s, cls) ==
    LET others == {k \in 1..Len(s) : s[k] \notin cls}
    IN  IF others = {} THEN s ELSE SubSeq(s, 1, MinOfSet(others) - 1)

\* The longest suffix of s whose characters are all in cls: the match of
\* /[cls]*$/.
TrailingRun(s, cls) ==
    LET others == {k \in 1..Len(s) : s[k] \notin cls}
    IN  IF others = {} THEN s ELSE SubSeq(s, MaxOfSet(others) + 1, Len(s))

\* TrimIsEmpty without the trim, s === ''.
IsEmptyString(s) == s = <<>>

\* TrimIsEmpty with spaces and tabs as the only white space,
\* /^[ \t]*$/.test(s).
SpacesAndTabsOnly(s) == \A k \in 1..Len(s) : s[k] \in SpaceTab

\* s.trim() === ''
TrimIsEmpty(s) == \A k \in 1..Len(s) : s[k] \in TrimSpace

\* s.indexOf('\n') !== -1
HasLF(s) == \E k \in 1..Len(s) : s[k] = LF

\* s without the characters at the positions in dropped.
DropAt(s, dropped) ==
    LET numbered == [k \in 1..Len(s) |-> <<k, s[k]>>]
        kept     == SelectSeq(numbered, LAMBDA p : p[1] \notin dropped)
    IN  [k \in 1..Len(kept) |-> kept[k][2]]

\* s.replace(/\r\n/g, '\n'): every \r\n pair becomes its \n, that is, a \r
\* directly before a \n is dropped.
ReplaceCRLF(s) ==
    DropAt(s, {k \in 1..Len(s) : s[k] = CR /\ k < Len(s) /\ s[k + 1] = LF})

\* s.replace(/\r/g, '\n')
ReplaceCR(s) == [k \in 1..Len(s) |-> IF s[k] = CR THEN LF ELSE s[k]]

\* s.replace(/\r\n/g, '\n').replace(/\r/g, '\n')
NormalizeNewlines(s) == ReplaceCR(ReplaceCRLF(s))

\* s.split('\n')
RECURSIVE SplitLF(_)
SplitLF(s) ==
    LET breaks == {k \in 1..Len(s) : s[k] = LF}
    IN  IF breaks = {} THEN <<s>>
        ELSE LET k == MinOfSet(breaks)
             IN  <<SubSeq(s, 1, k - 1)>> \o SplitLF(SubSeq(s, k + 1, Len(s)))

\* ls.join(sep)
RECURSIVE JoinWith(_, _)
JoinWith(ls, sep) ==
    IF ls = <<>> THEN <<>>
    ELSE IF Len(ls) = 1 THEN ls[1]
         ELSE (ls[1] \o sep) \o JoinWith(Tail(ls), sep)

\* ls.join('\n')
JoinLF(ls) == JoinWith(ls, <<LF>>)

\* ps.join('')
JoinEmpty(ps) == JoinWith(ps, <<>>)

\* IndentAfterLF without the g flag, s.replace(/\n/, '\n' + indent): only
\* the first line break is followed by the indent.
IndentAfterFirstLF(s, indent) ==
    LET ls == SplitLF(s)
    IN  IF Len(ls) = 1 THEN s
        ELSE (ls[1] \o <<LF>> \o indent) \o JoinLF(Tail(ls))

\* s.replace(/\n/g, '\n' + indent): the text between the \n is kept and each
\* \n is followed by the indent.
IndentAfterLF(s, indent) == JoinWith(SplitLF(s), <<LF>> \o indent)

\* CollapseLF with the replacement '\n': of every run of three or more \n
\* only the first is kept.
CollapseToOneLF(s) ==
    LET Drop(k) == /\ s[k] = LF /\ k >= 2 /\ s[k - 1] = LF
                   /\ (k >= 3 /\ s[k - 2] = LF) \/ (k < Len(s) /\ s[k + 1] = LF)
    IN  DropAt(s, {k \in 1..Len(s) : Drop(k)})

\* CollapseLF with the quantifier {4,}: runs of exactly three \n stay.
CollapseFourLF(s) ==
    LET Drop(k) == /\ s[k] = LF /\ k >= 3 /\ s[k - 1] = LF /\ s[k - 2] = LF
                   /\ (k >= 4 /\ s[k - 3] = LF) \/ (k < Len(s) /\ s[k + 1] = LF)
    IN  DropAt(s, {k \in 1..Len(s) : Drop(k)})

\* s.replace(/\n{3,}/g, '\n\n'): of every maximal run of three or more \n the
\* first two are kept, that is, a \n behind two \n is dropped.
CollapseLF(s) ==
    DropAt(s, {k \in 1..Len(s) : s[k] = LF /\ k >= 3 /\ s[k - 1] = LF /\ s[k - 2] = LF})

\* Math.min(...ns) of a non-empty sequence of numbers
MinOf(ns) == MinOfSet({ns[k] : k \in 1..Len(ns)})

-----------------------------------------------------------------------------
(* Values.  A value is a record: a string, null, undefined, an integer    *)
(* number or a boolean.                                                    *)

Str(s) == [kind |-> "string", str |-> s]
Null == [kind |-> "null", str |-> <<>>]
Undefined == [kind |-> "undefined"]
Num(n) == [kind |-> "number", num |-> n]
Bool(b) == [kind |-> "boolean", bool |-> b]

Digit(d) == <<"0", "1", "2", "3", "4", "5", "6", "7", "8", "9">>[d + 1]

\* String(n) of an integer n: its decimal digits, behind "-" when negative.
RECURSIVE DecimalOf(_)
DecimalOf(n) ==
    IF n < 0 THEN <<"-">> \o DecimalOf(0 - n)
    ELSE IF n < 10 THEN <<Digit(n)>>
    ELSE DecimalOf(n \div 10) \o <<Digit(n % 10)>>

\* String(v) of a value that is neither null nor undefined
StringOf(v) ==
    CASE v.kind = "string" -> v.str
      [] v.kind = "number" -> DecimalOf(v.num)
      [] v.kind = "boolean" ->
            IF v.bool THEN <<"t", "r", "u", "e">> ELSE <<"f", "a", "l", "s", "e">>

\* Stringify with a test for falsy values, v ? String(v) : '': 0, false and
\* '' give the empty string as null and undefined do.
StringifyFalsy(v) ==
    IF \/ v.kind \in {"null", "undefined"}
       \/ v = Num(0)
       \/ v = Bool(FALSE)
    THEN <<>> ELSE StringOf(v)

\* if (v == null) v = ''; else v = String(v);
Stringify(v) == IF v.kind \in {"null", "undefined"} THEN <<>> ELSE StringOf(v)

-----------------------------------------------------------------------------
(* The pieces of html().                                                   *)

\* LocalIndent with the run of spaces and tabs taken at the start of the
\* segment, /^([ \t]*)/, instead of at its end.
LocalIndentLeading(before) == LeadingRun(before, SpaceTab)

\* LocalIndent without the anchor (^|[\r\n]), /([ \t]*)$/: the trailing run
\* of spaces and tabs, also behind other text of the line.
LocalIndentTrailing(before) == TrailingRun(before, SpaceTab)

\* const lastLineMatch = before.match(/(^|[\r\n])([ \t]*)$/);
\* const indent = lastLineMatch ? lastLineMatch[2] : '';
\* The expression matches when the trailing run of spaces and tabs reaches
\* back to the start of the string or to a \r or \n; group 2 is that run.
LocalIndent(before) ==
    LET run == TrailingRun(before, SpaceTab)
        at  == Len(before) - Len(run)
    IN  IF at = 0 \/ before[at] \in {CR, LF} THEN run ELSE <<>>

\* IndentValue with the local indent also in front of the first line.
IndentValueFirstLineToo(v, indent) ==
    IF HasLF(v) THEN indent \o IndentAfterLF(NormalizeNewlines(v), indent) ELSE v

\* IndentValue with the local indent inserted twice behind every \n.
IndentValueTwice(v, indent) ==
    IF HasLF(v) THEN IndentAfterLF(NormalizeNewlines(v), indent \o indent) ELSE v

\* if (v.indexOf('\n') !== -1) v = v.replace(...).replace(...).replace(...)
IndentValue(v, indent) ==
    IF HasLF(v) THEN IndentAfterLF(NormalizeNewlines(v), indent) ELSE v

\* Indents without the filter: lines.map((l) => ...length), blank lines
\* counted like the others.
IndentsOfAllLines(ls) == [k \in 1..Len(ls) |-> Len(LeadingRun(ls[k], SpaceTab))]

\* lines.filter((l) => l.trim() !== '').map((l) => (l.match(/^[ \t]*/) || [''])[0].length)
Indents(ls) ==
    LET kept == SelectSeq(ls, LAMBDA l : ~TrimIsEmpty(l))
    IN  [k \in 1..Len(kept) |-> Len(LeadingRun(kept[k], SpaceTab))]

\* MinIndent without the filter on blank lines: the minimum over all lines.
MinIndentOfAllLines(ls) ==
    MinOf([k \in 1..Len(ls) |-> Len(LeadingRun(ls[k], SpaceTab))])

\* MinIndent with a margin of one column at most.
MinIndentAtMostOne(ls) ==
    LET indents == Indents(ls)
    IN  IF Len(indents) # 0
        THEN (IF MinOf(indents) > 1 THEN 1 ELSE MinOf(indents))
        ELSE 0

\* const minIndent = indents.length ? Math.min(...indents) : 0;
MinIndent(ls) ==
    LET indents == Indents(ls)
    IN  IF Len(indents) # 0 THEN MinOf(indents) ELSE 0

\* StripMargin with the margin taken once too often, ^[ \t]{0,n+1}: a line
\* indented deeper than the margin loses one character more.
StripMarginAndOne(l, n) ==
    LET lead == Len(LeadingRun(l, SpaceTab))
        cut  == IF lead < n + 1 THEN lead ELSE n + 1
    IN  SubSeq(l, cut + 1, Len(l))

\* StripMargin without the bound, l.replace(/^[ \t]*/, ''): all leading
\* spaces and tabs go.
StripAllLeading(l, n) == SubSeq(l, Len(LeadingRun(l, SpaceTab)) + 1, Len(l))

\* l.replace(new RegExp('^[ \\t]{0,' + minIndent + '}'), '')
StripMargin(l, n) ==
    LET lead == Len(LeadingRun(l, SpaceTab))
        cut  == IF lead < n THEN lead ELSE n
    IN  SubSeq(l, cut + 1, Len(l))

\* StripTrailing that knows spaces only, l.replace(/ +$/u, '').
StripTrailingSpaces(l) == SubSeq(l, 1, Len(l) - Len(TrailingRun(l, {SP})))

\* StripTrailing without the +, l.replace(/[ \t]$/u, ''): one trailing space
\* or tab goes.
StripLastSpaceTab(l) ==
    IF l # <<>> /\ l[Len(l)] \in SpaceTab THEN SubSeq(l, 1, Len(l) - 1) ELSE l

\* l.replace(/[ \t]+$/u, '')
StripTrailing(l) == SubSeq(l, 1, Len(l) - Len(TrailingRun(l, SpaceTab)))

\* DedentLines that handles only the lines long enough to hold the margin:
\* lines.filter((l) => l.length >= n).map(...)
DedentLongLines(ls, n) ==
    LET long == SelectSeq(ls, LAMBDA l : Len(l) >= n)
    IN  [k \in 1..Len(long) |-> StripTrailing(StripMargin(long[k], n))]

\* lines.map((l) => l.replace(...).replace(...))
DedentLines(ls, n) == [k \in 1..Len(ls) |-> StripTrailing(StripMargin(ls[k], n))]

\* The for loop and parts.join(''): every segment followed by its indented
\* value, when i < values.length.
Combined(strs, vals) ==
    JoinEmpty([k \in 1..Len(strs) |->
        IF k - 1 < Len(vals)
        THEN strs[k] \o IndentValue(Stringify(vals[k]), LocalIndent(strs[k]))
        ELSE strs[k]])

\* The two while loops: what is left of the lines once the blank ones are
\* shifted from the front and popped from the back.
TrimBlankLines(ls) ==
    LET kept == {k \in 1..Len(ls) : ~TrimIsEmpty(ls[k])}
    IN  IF kept = {} THEN <<>> ELSE SubSeq(ls, MinOfSet(kept), MaxOfSet(kept))

\* html(strs, ...vals) as one function: the value it returns.
Html(strs, vals) ==
    LET ls == TrimBlankLines(SplitLF(NormalizeNewlines(Combined(strs, vals))))
    IN  IF Len(ls) = 0 THEN <<>>
        ELSE CollapseLF(JoinLF(DedentLines(ls, MinIndent(ls))))

\* No call of esc is being followed.
NoEscCall == [pc |-> "none"]

\* this.navLinks, this.pagerLinks, this.categories
Lists == {"navLinks", "pagerLinks", "categories"}

\* No array; arrays are numbered from 1.
NoArray == 0

\* No BlogPage is being followed.
NoPage == [l \in Lists |-> NoArray]

-----------------------------------------------------------------------------
(* Inputs.                                                                 *)

\* Every string over chars of length at most n.
RECURSIVE StringsUpTo(_, _)
StringsUpTo(chars, n) ==
    IF n = 0 THEN {<<>>}
    ELSE LET shorter == StringsUpTo(chars, n - 1)
         IN  shorter \cup {s \o <<c>> : s \in shorter, c \in chars}

Chars == {"a", SP, TAB, LF, CR, FF}

\* One template without interpolation: every string up to MaxLen.
ShortTemplates == {<<s>> : s \in StringsUpTo(Chars, MaxLen)}

\* Lines of a template as they are written: content at several depths,
\* blank lines with and without spaces, trailing spaces and tabs.
LineShapes == {<<>>, <<SP>>, <<"a">>, <<SP, "b">>, <<SP, SP, "c", SP>>, <<TAB, "d", TAB>>}

LineTexts == {JoinLF(ls) : ls \in UNION {[1..n -> LineShapes] : n \in 1..MaxLines}}

\* Two segments and one value: html`${s0}${v}${s1}` with the text before the
\* value ending at several columns, and values of one or several lines.
GapBefore ==
    StringsUpTo({"a", SP, LF}, MaxSegLen)
    \cup {<<CR, SP>>, <<LF, TAB>>, <<TAB>>, <<"a", LF, SP, SP>>}

GapAfter == {<<>>, <<LF, "b">>}

GapValues == StringsUpTo({"a", SP, LF, CR}, MaxValLen)

GapCalls ==
    {[strs |-> <<s0, s1>>, vals |-> <<Str(v)>>] :
        s0 \in GapBefore, v \in GapValues, s1 \in GapAfter}

\* Calls with up to MaxSegs segments and up to MaxVals values, the counts
\* matching or not, null among the values.
SmallSegs == {<<>>, <<SP>>, <<"a">>, <<LF, SP>>}

SmallVals == {Str(<<"x">>), Str(<<"x", LF, "y">>), Null}

SmallCalls ==
    [strs : UNION {[1..n -> SmallSegs] : n \in 0..MaxSegs},
     vals : UNION {[1..n -> SmallVals] : n \in 0..MaxVals}]

\* A block rendered by html and passed as a value of an outer template, as
\* BlogPage.render passes the results of its _render methods: the block
\* behind text at several columns, in the first gap or in the second.
NestedBlocks ==
    {Html(<<t>>, <<>>) :
        t \in {<<"p", LF, SP, "q">>, <<SP, SP, "p", LF, SP, "q">>,
               <<LF, "p", LF, LF, TAB, "q", SP, LF>>}}

NestedBefore == {<<>>, <<SP>>, <<LF, SP, SP>>, <<"a", LF, TAB>>, <<"a">>}

NestedAfter == {<<>>, <<"z">>, <<LF, "z">>}

NestedCalls ==
    {[strs |-> <<s0, s1>>, vals |-> <<Str(b)>>] :
        s0 \in NestedBefore, b \in NestedBlocks, s1 \in NestedAfter}
    \cup {[strs |-> <<f, s0, s1>>, vals |-> <<v, Str(b)>>] :
            f \in {<<"a">>, <<SP, SP>>, <<"a", LF>>}, v \in {Null, Str(<<"x">>)},
            s0 \in NestedBefore, b \in NestedBlocks, s1 \in NestedAfter}

\* One value of every kind between two segments.
KindVals ==
    {Null, Undefined, Str(<<>>), Str(<<"x">>), Num(0), Num(7), Num(-12), Num(305),
     Bool(FALSE), Bool(TRUE)}

KindCalls ==
    {[strs |-> <<s0, s1>>, vals |-> <<v>>] :
        s0 \in {<<>>, <<"a">>, <<LF, SP>>}, v \in KindVals, s1 \in {<<>>, <<SP, "b">>}}
    \cup {[strs |-> <<<<"a">>, <<SP, "b">>, <<"c">>>>, vals |-> <<v, w>>] :
            v \in {Null, Undefined}, w \in {Num(0), Bool(FALSE)}}

\* Texts of up to five lines with form feeds: lines of a form feed only,
\* at the ends and inside, next to indented content.
FormFeedShapes == {<<>>, <<FF>>, <<SP, "a">>, <<SP, SP, FF>>}

FormFeedTexts == {JoinLF(ls) : ls \in UNION {[1..n -> FormFeedShapes] : n \in 1..5}}

\* Segments written with \r\n line endings around one value, the value
\* with line breaks of every form.
CrLfCalls ==
    {[strs |-> <<s0, s1>>, vals |-> <<Str(v)>>] :
        s0 \in {<<"a", CR, LF, SP>>, <<CR, LF>>, <<SP, "a", CR, LF, CR, LF, SP>>, <<CR>>,
                <<"a", CR>>},
        v \in {<<>>, <<"x">>, <<"x", CR>>, <<"x", LF, "y">>, <<CR, LF, "x">>,
               <<"x", CR, LF, "y">>, <<LF, "x">>},
        s1 \in {<<CR, LF, "b">>, <<CR, LF>>, <<LF, "b">>, <<>>}}

\* The templates of the usage comment of html.js and of the documentation.
MessySeg0 ==
    <<SP, SP, SP, SP, SP, SP, "<", "d", "i", "v", ">", LF, SP, SP, "<",
      "p", ">", LF, SP, SP, SP, SP>>

MessySeg1 ==
    <<LF, SP, SP, "<", "/", "p", ">", LF, "<", "/", "d", "i", "v", ">">>

MessyValue ==
    <<"m", "e", "s", "s", "y", SP, "f", "o", "r", "m", "a", "t", "t", "i",
      "n", "g", SP, "a", "n", "d", SP, "i", "n", "d", "e", "n", "t", "a",
      "t", "i", "o", "n">>

MessySingle ==
    <<SP, SP, SP, SP, SP, SP, "<", "d", "i", "v", ">", LF, SP, SP, "<",
      "p", ">", LF, SP, SP, SP, SP, "m", "e", "s", "s", "y", SP, "f", "o",
      "r", "m", "a", "t", "t", "i", "n", "g", SP, "a", "n", "d", SP, "i",
      "n", "d", "e", "n", "t", "a", "i", "o", "n", LF, SP, SP, "<", "/",
      "p", ">", LF, "<", "/", "d", "i", "v", ">">>

DivSeg0 ==
    <<SP, SP, "<", "d", "i", "v", ">", LF, SP, SP, SP, SP>>

DivSeg1 ==
    <<"<", "/", "d", "i", "v", ">">>

DivValue ==
    <<"l", "i", "n", "e", "1", LF, "l", "i", "n", "e", "2">>

BlankOnly ==
    <<SP, SP, SP, LF, LF, SP, SP, LF>>

RunInput ==
    <<"a", LF, LF, LF, LF, "b">>

Examples ==
    {[strs |-> <<MessySeg0, MessySeg1>>, vals |-> <<Str(MessyValue)>>],
     [strs |-> <<MessySingle>>, vals |-> <<>>],
     [strs |-> <<DivSeg0, DivSeg1>>, vals |-> <<Str(DivValue)>>],
     [strs |-> <<BlankOnly>>, vals |-> <<>>],
     [strs |-> <<RunInput>>, vals |-> <<>>]}

Inputs ==
    [strs : ShortTemplates, vals : {<<>>}]
    \cup [strs : {<<s>> : s \in LineTexts}, vals : {<<>>}]
    \cup GapCalls
    \cup SmallCalls
    \cup NestedCalls
    \cup KindCalls
    \cup [strs : {<<s>> : s \in FormFeedTexts}, vals : {<<>>}]
    \cup CrLfCalls
    \cup Examples

-----------------------------------------------------------------------------
(* The invocation.                                                         *)

Init ==
    /\ \E in \in Inputs : strings = in.strs /\ values = in.vals
    /\ escCall = NoEscCall
    /\ arrays = <<>>
    /\ page = NoPage
    /\ passed = NoPage
    /\ templates = <<>>
    /\ invocations = <<>>
    /\ pc = "loop"
    /\ i = 0
    /\ parts = <<>>
    /\ combined = <<>>
    /\ lines = <<>>
    /\ minIndent = NotComputed
    /\ dedented = <<>>
    /\ result = <<>>

\* LoopBody with the two pushes exchanged: the value goes in before the
\* segment it follows.
LoopBodyValueFirst ==
    /\ pc = "loop"
    /\ i < Len(strings)
    /\ LET before == strings[i + 1]
       IN  parts' =
               IF i < Len(values)
               THEN parts \o <<IndentValue(Stringify(values[i + 1]), LocalIndent(before)),
                               before>>
               ELSE parts \o <<before>>
    /\ i' = i + 1
    /\ UNCHANGED <<arrays, page, passed, escCall, templates, invocations, strings, values, pc, combined, lines, minIndent, dedented, result>>

\* LoopBody that pushes a segment only together with a value: the segments
\* behind the last value are left out.
LoopBodyStopsAtValues ==
    /\ pc = "loop"
    /\ i < Len(strings)
    /\ LET before == strings[i + 1]
       IN  parts' =
               IF i < Len(values)
               THEN parts \o <<before,
                               IndentValue(Stringify(values[i + 1]), LocalIndent(before))>>
               ELSE parts
    /\ i' = i + 1
    /\ UNCHANGED <<arrays, page, passed, escCall, templates, invocations, strings, values, pc, combined, lines, minIndent, dedented, result>>

\* One iteration of for (let i = 0; i < strings.length; i++) { ... }
LoopBody ==
    /\ pc = "loop"
    /\ i < Len(strings)
    /\ LET before == strings[i + 1]
       IN  parts' =
               IF i < Len(values)
               THEN parts \o <<before,
                               IndentValue(Stringify(values[i + 1]), LocalIndent(before))>>
               ELSE parts \o <<before>>
    /\ i' = i + 1
    /\ UNCHANGED <<arrays, page, passed, escCall, templates, invocations, strings, values, pc, combined, lines, minIndent, dedented, result>>

\* Join that appends the values no segment precedes: those at index
\* strings.length and beyond.
JoinWithSurplus ==
    /\ pc = "loop"
    /\ ~(i < Len(strings))
    /\ combined' =
           JoinEmpty(parts)
               \o JoinEmpty([k \in 1..(Len(values) - Len(strings)) |->
                               Stringify(values[Len(strings) + k])])
    /\ pc' = "normalize"
    /\ UNCHANGED <<arrays, page, passed, escCall, templates, invocations, strings, values, i, parts, lines, minIndent, dedented, result>>

\* let combined = parts.join('');
Join ==
    /\ pc = "loop"
    /\ ~(i < Len(strings))
    /\ combined' = JoinEmpty(parts)
    /\ pc' = "normalize"
    /\ UNCHANGED <<arrays, page, passed, escCall, templates, invocations, strings, values, i, parts, lines, minIndent, dedented, result>>

\* combined = combined.replace(/\r\n/g, '\n').replace(/\r/g, '\n');
\* const lines = combined.split('\n');
Normalize ==
    /\ pc = "normalize"
    /\ combined' = NormalizeNewlines(combined)
    /\ lines' = SplitLF(combined')
    /\ pc' = "shift"
    /\ UNCHANGED <<arrays, page, passed, escCall, templates, invocations, strings, values, i, parts, minIndent, dedented, result>>

\* ShiftBlank without the shift: the loop tests the first line and leaves
\* it where it is.
ShiftBlankKeepsLine ==
    /\ pc = "shift"
    /\ Len(lines) # 0 /\ TrimIsEmpty(lines[1])
    /\ lines' = lines
    /\ UNCHANGED <<arrays, page, passed, escCall, templates, invocations, strings, values, pc, i, parts, combined, minIndent, dedented, result>>

\* while (lines.length && lines[0].trim() === '') lines.shift();
ShiftBlank ==
    /\ pc = "shift"
    /\ Len(lines) # 0 /\ TrimIsEmpty(lines[1])
    /\ lines' = Tail(lines)
    /\ UNCHANGED <<arrays, page, passed, escCall, templates, invocations, strings, values, pc, i, parts, combined, minIndent, dedented, result>>

ShiftEnd ==
    /\ pc = "shift"
    /\ ~(Len(lines) # 0 /\ TrimIsEmpty(lines[1]))
    /\ pc' = "pop"
    /\ UNCHANGED <<arrays, page, passed, escCall, templates, invocations, strings, values, i, parts, combined, lines, minIndent, dedented, result>>

\* while (lines.length && lines[lines.length - 1].trim() === '') lines.pop();
PopBlank ==
    /\ pc = "pop"
    /\ Len(lines) # 0 /\ TrimIsEmpty(lines[Len(lines)])
    /\ lines' = SubSeq(lines, 1, Len(lines) - 1)
    /\ UNCHANGED <<arrays, page, passed, escCall, templates, invocations, strings, values, pc, i, parts, combined, minIndent, dedented, result>>

PopEnd ==
    /\ pc = "pop"
    /\ ~(Len(lines) # 0 /\ TrimIsEmpty(lines[Len(lines)]))
    /\ pc' = "check"
    /\ UNCHANGED <<arrays, page, passed, escCall, templates, invocations, strings, values, i, parts, combined, lines, minIndent, dedented, result>>

\* ReturnEmpty without the early return: the empty list of lines goes on to
\* the margin computation.
ReturnEmptySkipped ==
    /\ pc = "check"
    /\ Len(lines) = 0
    /\ minIndent' = MinIndent(lines)
    /\ dedented' = DedentLines(lines, minIndent')
    /\ pc' = "collapse"
    /\ UNCHANGED <<arrays, page, passed, escCall, templates, invocations, strings, values, i, parts, combined, lines, result>>

\* if (!lines.length) return '';
ReturnEmpty ==
    /\ pc = "check"
    /\ Len(lines) = 0
    /\ result' = <<>>
    /\ pc' = "done"
    /\ UNCHANGED <<arrays, page, passed, escCall, templates, invocations, strings, values, i, parts, combined, lines, minIndent, dedented>>

\* const indents = ...; const minIndent = ...; const dedented = lines.map(...);
Dedent ==
    /\ pc = "check"
    /\ Len(lines) # 0
    /\ minIndent' = MinIndent(lines)
    /\ dedented' = DedentLines(lines, minIndent')
    /\ pc' = "collapse"
    /\ UNCHANGED <<arrays, page, passed, escCall, templates, invocations, strings, values, i, parts, combined, lines, result>>

\* const result = dedented.join('\n').replace(/\n{3,}/g, '\n\n'); return result;
Collapse ==
    /\ pc = "collapse"
    /\ result' = CollapseLF(JoinLF(dedented))
    /\ pc' = "done"
    /\ UNCHANGED <<arrays, page, passed, escCall, templates, invocations, strings, values, i, parts, combined, lines, minIndent, dedented>>

Next ==
    \/ LoopBody
    \/ Join
    \/ Normalize
    \/ ShiftBlank
    \/ ShiftEnd
    \/ PopBlank
    \/ PopEnd
    \/ ReturnEmpty
    \/ Dedent
    \/ Collapse

Spec == Init /\ [][Next]_vars

\* The calls followed to their return: texts of up to three lines with
\* blank lines at either end, values of every kind, one or two segments
\* with fewer values, as many, or more.
ReturningInputs ==
    [strs : {<<JoinLF(ls)>> : ls \in UNION {[1..n -> LineShapes] : n \in 1..3}},
     vals : {<<>>}]
    \cup KindCalls
    \cup [strs : UNION {[1..n -> SmallSegs] : n \in 1..2},
          vals : UNION {[1..n -> SmallVals] : n \in 0..2}]

InitReturning ==
    /\ \E in \in ReturningInputs : strings = in.strs /\ values = in.vals
    /\ escCall = NoEscCall
    /\ arrays = <<>>
    /\ page = NoPage
    /\ passed = NoPage
    /\ templates = <<>>
    /\ invocations = <<>>
    /\ pc = "loop"
    /\ i = 0
    /\ parts = <<>>
    /\ combined = <<>>
    /\ lines = <<>>
    /\ minIndent = NotComputed
    /\ dedented = <<>>
    /\ result = <<>>

\* html is a synchronous function: once called it runs every statement up
\* to its return, nothing can suspend it between two steps.
FairSpec == InitReturning /\ [][Next]_vars /\ WF_vars(Next)

-----------------------------------------------------------------------------
(* Several invocations side by side.  A tagged template hands the same     *)
(* array of segments to every call made from its call site; the values     *)
(* are a fresh array per call, and so is every local of html.              *)

Invocations == {"A", "B"}

CallSites == {"s1", "s2"}

SiteSegments ==
    {<<<<SP, "a", LF, SP, SP>>, <<LF>>>>,
     <<<<LF, SP>>, <<SP, LF, "b">>>>,
     <<<<"c">>>>}

SiteValues ==
    {<<>>, <<Str(<<"x", LF, "y">>)>>, <<Null>>, <<Num(0), Str(<<"z">>)>>}

\* The locals of html on entry.
Fresh(vals) ==
    [values |-> vals, pc |-> "loop", i |-> 0, parts |-> <<>>, combined |-> <<>>,
     lines |-> <<>>, minIndent |-> NotComputed, dedented |-> <<>>, result |-> <<>>]

\* html called from a site: what the caller handed over, and the locals.
NewCall(site, vals) ==
    [site |-> site, given |-> [strs |-> templates[site], vals |-> vals],
     locals |-> Fresh(vals)]

\* One step of html on its locals l, strs being the array of segments it
\* was given: the step LoopBody, Join, ..., Collapse takes at l.pc.
StepOf(l, strs) ==
    CASE l.pc = "loop" /\ l.i < Len(strs) ->
            LET before == strs[l.i + 1]
            IN  [l EXCEPT
                    !.parts =
                        IF l.i < Len(l.values)
                        THEN @ \o <<before,
                                    IndentValue(Stringify(l.values[l.i + 1]),
                                                LocalIndent(before))>>
                        ELSE @ \o <<before>>,
                    !.i = @ + 1]
      [] l.pc = "loop" /\ ~(l.i < Len(strs)) ->
            [l EXCEPT !.combined = JoinEmpty(l.parts), !.pc = "normalize"]
      [] l.pc = "normalize" ->
            [l EXCEPT !.combined = NormalizeNewlines(l.combined),
                      !.lines = SplitLF(NormalizeNewlines(l.combined)),
                      !.pc = "shift"]
      [] l.pc = "shift" /\ Len(l.lines) # 0 /\ TrimIsEmpty(l.lines[1]) ->
            [l EXCEPT !.lines = Tail(@)]
      [] l.pc = "shift" /\ ~(Len(l.lines) # 0 /\ TrimIsEmpty(l.lines[1])) ->
            [l EXCEPT !.pc = "pop"]
      [] l.pc = "pop" /\ Len(l.lines) # 0 /\ TrimIsEmpty(l.lines[Len(l.lines)]) ->
            [l EXCEPT !.lines = SubSeq(@, 1, Len(@) - 1)]
      [] l.pc = "pop" /\ ~(Len(l.lines) # 0 /\ TrimIsEmpty(l.lines[Len(l.lines)])) ->
            [l EXCEPT !.pc = "check"]
      [] l.pc = "check" /\ Len(l.lines) = 0 ->
            [l EXCEPT !.result = <<>>, !.pc = "done"]
      [] l.pc = "check" /\ Len(l.lines) # 0 ->
            [l EXCEPT !.minIndent = MinIndent(l.lines),
                      !.dedented = DedentLines(l.lines, MinIndent(l.lines)),
                      !.pc = "collapse"]
      [] l.pc = "collapse" ->
            [l EXCEPT !.result = CollapseLF(JoinLF(l.dedented)), !.pc = "done"]

InitConcurrent ==
    /\ escCall = NoEscCall
    /\ arrays = <<>>
    /\ page = NoPage
    /\ passed = NoPage
    /\ templates \in [CallSites -> SiteSegments]
    /\ \E sites \in [Invocations -> CallSites], vals \in [Invocations -> SiteValues] :
           invocations = [c \in Invocations |-> NewCall(sites[c], vals[c])]
    /\ strings = <<>>
    /\ values = <<>>
    /\ pc = "done"
    /\ i = 0
    /\ parts = <<>>
    /\ combined = <<>>
    /\ lines = <<>>
    /\ minIndent = NotComputed
    /\ dedented = <<>>
    /\ result = <<>>

\* Step with parts held in one array for all invocations (const parts = []
\* at module level): what one invocation pushes, the others see.
StepSharingParts(c) ==
    /\ invocations[c].locals.pc # "done"
    /\ LET stepped == StepOf(invocations[c].locals, templates[invocations[c].site])
       IN  invocations' =
               [d \in Invocations |->
                   IF d = c THEN [invocations[d] EXCEPT !.locals = stepped]
                   ELSE [invocations[d] EXCEPT !.locals.parts = stepped.parts]]
    /\ UNCHANGED <<arrays, page, passed, escCall, templates, strings, values, pc, i, parts, combined, lines, minIndent, dedented, result>>

\* Invocation c takes its next step, whatever the others are doing.
Step(c) ==
    /\ invocations[c].locals.pc # "done"
    /\ invocations' =
           [invocations EXCEPT
               ![c].locals = StepOf(@, templates[invocations[c].site])]
    /\ UNCHANGED <<arrays, page, passed, escCall, templates, strings, values, pc, i, parts, combined, lines, minIndent, dedented, result>>

\* The caller of c, which has returned, calls html again.
Call(c) ==
    /\ invocations[c].locals.pc = "done"
    /\ \E site \in CallSites, vals \in SiteValues :
           invocations' = [invocations EXCEPT ![c] = NewCall(site, vals)]
    /\ UNCHANGED <<arrays, page, passed, escCall, templates, strings, values, pc, i, parts, combined, lines, minIndent, dedented, result>>

NextConcurrent == \E c \in Invocations : Step(c) \/ Call(c)

ConcurrentSpec == InitConcurrent /\ [][NextConcurrent]_vars

-----------------------------------------------------------------------------
(* The escaping helper of lib.js:                                          *)
(*   export const esc = (ms) => str==null?'':String(str)                   *)
(*       .replace(/&/g, '&amp;') .replace(/</g, '&lt;') ...                *)
(* Its parameter is ms; its body reads str, which no scope of lib.js       *)
(* binds, so that str is looked up on the global object.                   *)

\* s.replace(/c/g, r) for a single character c
ReplaceAll(s, c, r) ==
    JoinEmpty([k \in 1..Len(s) |-> IF s[k] = c THEN r ELSE <<s[k]>>])

\* str==null?'':String(str).replace(/&/g, '&amp;') ... .replace(/'/g, '&#039;')
\* for the value v that str denotes
EscapeOf(v) ==
    IF v.kind \in {"null", "undefined"} THEN <<>>
    ELSE LET s0 == StringOf(v)
             s1 == ReplaceAll(s0, "&", <<"&", "a", "m", "p", ";">>)
             s2 == ReplaceAll(s1, "<", <<"&", "l", "t", ";">>)
             s3 == ReplaceAll(s2, ">", <<"&", "g", "t", ";">>)
             s4 == ReplaceAll(s3, "\"", <<"&", "q", "u", "o", "t", ";">>)
         IN  ReplaceAll(s4, "'", <<"&", "#", "0", "3", "9", ";">>)

\* The global object holds no property str.
Unbound == [kind |-> "unbound"]

\* What the global object holds for str: nothing, unless a script of the
\* page or of the process has put a value there.
GlobalStr == {Unbound, Null, Str(<<"g", "<">>)}

EscArgs ==
    {Str(s) : s \in StringsUpTo({"a", "&", "<", ">", "\"", "'"}, 2)}
    \cup {Null, Undefined, Num(0), Bool(FALSE)}

\* esc(arg) has been called: ms is bound to arg.
InitEsc ==
    /\ \E arg \in EscArgs, g \in GlobalStr :
           escCall = [pc |-> "called", ms |-> arg, str |-> g]
    /\ arrays = <<>>
    /\ page = NoPage
    /\ passed = NoPage
    /\ templates = <<>>
    /\ invocations = <<>>
    /\ strings = <<>>
    /\ values = <<>>
    /\ pc = "done"
    /\ i = 0
    /\ parts = <<>>
    /\ combined = <<>>
    /\ lines = <<>>
    /\ minIndent = NotComputed
    /\ dedented = <<>>
    /\ result = <<>>

\* str is bound nowhere: evaluating str==null throws a ReferenceError.
EscThrows ==
    /\ escCall.pc = "called"
    /\ escCall.str = Unbound
    /\ escCall' = [escCall EXCEPT !.pc = "thrown"]
    /\ UNCHANGED <<arrays, page, passed, templates, invocations, strings, values, pc, i, parts, combined, lines, minIndent, dedented, result>>

\* str is a property of the global object: its value is escaped and
\* returned, the argument ms is not read.
EscReturns ==
    /\ escCall.pc = "called"
    /\ escCall.str # Unbound
    /\ escCall' = [pc |-> "returned", ms |-> escCall.ms, str |-> escCall.str,
                   returned |-> EscapeOf(escCall.str)]
    /\ UNCHANGED <<arrays, page, passed, templates, invocations, strings, values, pc, i, parts, combined, lines, minIndent, dedented, result>>

NextEsc == EscThrows \/ EscReturns

EscSpec == InitEsc /\ [][NextEsc]_vars

-----------------------------------------------------------------------------
(* The link lists of BlogPage (BlogPage.js): navLinks, pagerLinks and      *)
(* categories, with their add and set methods.  An array is an object:     *)
(* `arrays` holds the elements of every array, and a field of the page or  *)
(* an argument of a setter is the number of one of them.                   *)

\* Entries in all the arrays together.
MaxEntries == 3

\* The arrays that the constructor assigns: this.navLinks = [],
\* this.pagerLinks = [], this.categories = [].
NewPage == [navLinks |-> 1, pagerLinks |-> 2, categories |-> 3]

\* The arrays that the caller holds and may pass to a setter.
CallerArrays == {4, 5}

\* Arguments of addNavLink and addPagerLink, with and without ariaCurrent.
LinkArgs ==
    [text : {"Home", "About"}, url : {"#"}]
    \cup [text : {"Home"}, url : {"#"}, ariaCurrent : {Str(<<"p">>)}]

\* Arguments of addCategory.
CategoryArgs == [text : {"News", "Art"}, url : {"#"}]

\* ({ text, url, ariaCurrent = null }) => ({ text, url, ariaCurrent })
LinkEntry(link) ==
    [text |-> link.text, url |-> link.url,
     ariaCurrent |-> IF "ariaCurrent" \in DOMAIN link THEN link.ariaCurrent ELSE Null]

\* ({ text, url }) => ({ text, url })
CategoryEntry(cat) == [text |-> cat.text, url |-> cat.url]

RECURSIVE EntriesFrom(_, _)
EntriesFrom(as, n) == IF n > Len(as) THEN 0 ELSE Len(as[n]) + EntriesFrom(as, n + 1)

\* new BlogPage({...}) has run; the caller holds two arrays of links.
InitPage ==
    /\ \E a \in {<<>>, <<LinkEntry([text |-> "Blog", url |-> "#"])>>},
          b \in {<<>>, <<CategoryEntry([text |-> "Misc", url |-> "#"])>>} :
           arrays = <<<<>>, <<>>, <<>>, a, b>>
    /\ page = NewPage
    /\ passed = NoPage
    /\ escCall = NoEscCall
    /\ templates = <<>>
    /\ invocations = <<>>
    /\ strings = <<>>
    /\ values = <<>>
    /\ pc = "done"
    /\ i = 0
    /\ parts = <<>>
    /\ combined = <<>>
    /\ lines = <<>>
    /\ minIndent = NotComputed
    /\ dedented = <<>>
    /\ result = <<>>

\* this[list].push(entry); return this;
PushTo(list, entry) ==
    /\ page # NoPage
    /\ EntriesFrom(arrays, 1) < MaxEntries
    /\ arrays' = [arrays EXCEPT ![page[list]] = Append(@, entry)]
    /\ UNCHANGED <<page, passed>>
    /\ UNCHANGED <<escCall, templates, invocations, strings, values, pc, i, parts, combined, lines, minIndent, dedented, result>>

\* A setter that keeps a copy, this[list] = [...links]; return this;
AssignCopy(list, links) ==
    /\ page # NoPage
    /\ arrays' = Append(arrays, arrays[links])
    /\ page' = [page EXCEPT ![list] = Len(arrays) + 1]
    /\ passed' = [passed EXCEPT ![list] = links]
    /\ UNCHANGED <<escCall, templates, invocations, strings, values, pc, i, parts, combined, lines, minIndent, dedented, result>>

\* this[list] = links; return this;
Assign(list, links) ==
    /\ page # NoPage
    /\ page' = [page EXCEPT ![list] = links]
    /\ passed' = [passed EXCEPT ![list] = links]
    /\ UNCHANGED arrays
    /\ UNCHANGED <<escCall, templates, invocations, strings, values, pc, i, parts, combined, lines, minIndent, dedented, result>>

\* addNavLink({ text, url, ariaCurrent = null })
addNavLink(link) == PushTo("navLinks", LinkEntry(link))

\* setNavLinks(links)
setNavLinks(links) == Assign("navLinks", links)

\* addPagerLink({ text, url, ariaCurrent = null })
addPagerLink(link) == PushTo("pagerLinks", LinkEntry(link))

\* setPagerLinks(links)
setPagerLinks(links) == Assign("pagerLinks", links)

\* addCategory({ text, url })
addCategory(cat) == PushTo("categories", CategoryEntry(cat))

\* setCategories(categories)
setCategories(categories) == Assign("categories", categories)

NextPage ==
    \/ \E link \in LinkArgs : addNavLink(link)
    \/ \E links \in CallerArrays : setNavLinks(links)
    \/ \E link \in LinkArgs : addPagerLink(link)
    \/ \E links \in CallerArrays : setPagerLinks(links)
    \/ \E cat \in CategoryArgs : addCategory(cat)
    \/ \E categories \in CallerArrays : setCategories(categories)

PageSpec == InitPage /\ [][NextPage]_vars

-----------------------------------------------------------------------------
(* Definitions shared by the properties.                                   *)

Done == pc = "done"

\* The call is html(strs, ...vals).
Called(strs, vals) == strings = strs /\ values = vals

\* The gaps that receive a value: 0-based, as the loop counts them.
Gaps == {g \in 0..(Len(strings) - 1) : g < Len(values)}

\* In parts, the text inserted for value g (for g in Gaps every earlier
\* iteration pushed two parts).
InsertedPart(g) == parts[2 * g + 2]

\* The concatenated text that precedes the insertion point of gap g.
TextBefore(g) == JoinEmpty(SubSeq(parts, 1, 2 * g + 1))

\* The column at which s ends: the number of characters after its last line
\* break (\r or \n).
Column(s) ==
    LET breaks == {k \in 1..Len(s) : s[k] \in {CR, LF}}
    IN  IF breaks = {} THEN Len(s) ELSE Len(s) - MaxOfSet(breaks)

\* The lines of a text, each \r\n, \r and \n being one line break.
LinesOf(s) == SplitLF(NormalizeNewlines(s))

AllSpaceTab(l) == \A k \in 1..Len(l) : l[k] \in SpaceTab

\* A line that holds a character other than white space.
HasContent(l) == \E k \in 1..Len(l) : l[k] \notin TrimSpace

-----------------------------------------------------------------------------
(* C1.  The template of the usage comment of html.js.                      *)

MessyExpected ==
    <<"<", "d", "i", "v", ">", LF, SP, SP, "<", "p", ">", LF, SP, SP, SP,
      SP, "m", "e", "s", "s", "y", SP, "f", "o", "r", "m", "a", "t", "t",
      "i", "n", "g", SP, "a", "n", "d", SP, "i", "n", "d", "e", "n", "t",
      "a", "t", "i", "o", "n", LF, SP, SP, "<", "/", "p", ">", LF, "<",
      "/", "d", "i", "v", ">">>

MessySingleExpected ==
    <<"<", "d", "i", "v", ">", LF, SP, SP, "<", "p", ">", LF, SP, SP, SP,
      SP, "m", "e", "s", "s", "y", SP, "f", "o", "r", "m", "a", "t", "t",
      "i", "n", "g", SP, "a", "n", "d", SP, "i", "n", "d", "e", "n", "t",
      "a", "i", "o", "n", LF, SP, SP, "<", "/", "p", ">", LF, "<", "/",
      "d", "i", "v", ">">>

\* C1: html(["      <div>\n  <p>\n    ", "\n  </p>\n</div>"], "messy formatting
\* and indentation") returns "<div>\n  <p>\n    messy formatting and
\* indentation\n  </p>\n</div>", the first line at column 0, and so does the
\* single-segment template of the usage comment (as the comment's "Expected
\* console output" shows).
MessyExampleStartsAtColumnZero ==
    Done =>
        /\ Called(<<MessySeg0, MessySeg1>>, <<Str(MessyValue)>>) => result = MessyExpected
        /\ Called(<<MessySingle>>, <<>>) => result = MessySingleExpected

-----------------------------------------------------------------------------
(* C2.  A two-line value inside <div>.                                     *)

DivClaimedConcat ==
    <<SP, SP, "<", "d", "i", "v", ">", LF, SP, SP, SP, SP, "l", "i", "n",
      "e", "1", LF, SP, SP, SP, SP, "l", "i", "n", "e", "2", LF, SP, SP,
      "<", "/", "d", "i", "v", ">">>

DivClaimedResult ==
    <<"<", "d", "i", "v", ">", LF, SP, SP, "l", "i", "n", "e", "1", LF, SP,
      SP, "l", "i", "n", "e", "2", LF, "<", "/", "d", "i", "v", ">">>

DivConcat ==
    <<SP, SP, "<", "d", "i", "v", ">", LF, SP, SP, SP, SP, "l", "i", "n",
      "e", "1", LF, SP, SP, SP, SP, "l", "i", "n", "e", "2", "<", "/", "d",
      "i", "v", ">">>

DivResult ==
    <<"<", "d", "i", "v", ">", LF, SP, SP, "l", "i", "n", "e", "1", LF, SP,
      SP, "l", "i", "n", "e", "2", "<", "/", "d", "i", "v", ">">>

\* C2 as stated: html(["  <div>\n    ", "</div>"], "line1\nline2") builds the
\* concatenation "  <div>\n    line1\n    line2\n  </div>" and returns
\* "<div>\n  line1\n  line2\n</div>".
DivExampleAsStated ==
    (Done /\ Called(<<DivSeg0, DivSeg1>>, <<Str(DivValue)>>)) =>
        /\ combined = DivClaimedConcat
        /\ result = DivClaimedResult

\* C2 amended: html(["  <div>\n    ", "</div>"], "line1\nline2") builds the
\* concatenation "  <div>\n    line1\n    line2</div>" (the second line of
\* the value carries the 4-space local indent; no line break separates the
\* value from "</div>") and, the common margin being 2, returns
\* "<div>\n  line1\n  line2</div>".
DivExample ==
    (Done /\ Called(<<DivSeg0, DivSeg1>>, <<Str(DivValue)>>)) =>
        /\ combined = DivConcat
        /\ minIndent = 2
        /\ result = DivResult

DivExampleReturned ==
    Done /\ Called(<<DivSeg0, DivSeg1>>, <<Str(DivValue)>>) /\ result = DivResult

-----------------------------------------------------------------------------
(* C3.  Where the later lines of a multi-line value begin.                 *)

\* The text `placed` is `line` moved to column k behind the characters `lead`.
PlacedAt(placed, lead, line) == placed = lead \o line

\* The last k characters of s.
LastChars(s, k) == SubSeq(s, Len(s) - k + 1, Len(s))

\* C3 as stated: for every gap, if the stringified value has several lines and
\* is inserted at column K of its template line (K counted from the last line
\* break of the text before the insertion point), every later line of the
\* value begins at column K of the concatenated text, whatever precedes the
\* insertion point on that line.
ValueLinesBeginAtInsertionColumn ==
    Done =>
        \A g \in Gaps :
            LET v  == Stringify(values[g + 1])
                K  == Column(TextBefore(g))
                vl == LinesOf(v)
                pl == LinesOf(InsertedPart(g))
            IN  Len(vl) > 1 =>
                    /\ Len(pl) = Len(vl)
                    /\ \A j \in 2..Len(vl) :
                           /\ Len(pl[j]) = K + Len(vl[j])
                           /\ SubSeq(pl[j], K + 1, Len(pl[j])) = vl[j]

\* C3 amended: for every gap i, if the stringified value contains a \n and the
\* K characters between the start of its template line and the insertion
\* point are all spaces or tabs of segment[i] itself, every later line of the
\* value begins at column K behind those same K characters, whatever
\* indentation the value's own lines carry; if the last line of segment[i]
\* holds any other character, nothing is inserted and the later lines of the
\* value begin at column 0.
ValueLinesBeginAtLocalIndent ==
    Done =>
        \A g \in Gaps :
            LET v      == Stringify(values[g + 1])
                before == TextBefore(g)
                seg    == strings[g + 1]
                K      == Column(before)
                vl     == LinesOf(v)
                pl     == LinesOf(InsertedPart(g))
            IN  HasLF(v) =>
                    /\ Len(pl) = Len(vl)
                    /\ pl[1] = vl[1]
                    /\ (K <= Len(seg) /\ AllSpaceTab(LastChars(before, K))) =>
                           \A j \in 2..Len(vl) :
                               PlacedAt(pl[j], LastChars(before, K), vl[j])
                    /\ ~AllSpaceTab(LastChars(seg, Column(seg))) =>
                           \A j \in 2..Len(vl) : pl[j] = vl[j]

\* A value of three lines, the last one indented by the value itself, placed
\* behind an indentation of at least one character.
IndentedValuePlaced ==
    /\ Done
    /\ \E g \in Gaps :
           LET v      == Stringify(values[g + 1])
               before == TextBefore(g)
               K      == Column(before)
               vl     == LinesOf(v)
           IN  /\ HasLF(v)
               /\ Len(vl) = 3
               /\ vl[3] # <<>> /\ vl[3][1] = SP
               /\ K >= 1
               /\ K <= Len(strings[g + 1])
               /\ AllSpaceTab(LastChars(before, K))

-----------------------------------------------------------------------------
(* C4, C5, C6.  The shape of every result.                                 *)

\* C4: for all segment and value sequences, no line of the result ends with
\* a space or a tab.
NoLineEndsWithSpaceOrTab ==
    Done =>
        \A l \in {SplitLF(result)[k] : k \in 1..Len(SplitLF(result))} :
            l = <<>> \/ l[Len(l)] \notin SpaceTab

\* A call returned text of which some line, before dedenting, ended with a
\* space and some line ended with a tab.
TrailingSpaceAndTabStripped ==
    /\ Done
    /\ result # <<>>
    /\ \E k \in 1..Len(lines) : HasContent(lines[k]) /\ lines[k][Len(lines[k])] = SP
    /\ \E k \in 1..Len(lines) : HasContent(lines[k]) /\ lines[k][Len(lines[k])] = TAB

\* C5: the result has no leading and no trailing blank line: a non-empty
\* result neither starts nor ends with a newline, and its first and its last
\* line each hold a character that is not white space.
NoBoundaryBlankLine ==
    (Done /\ result # <<>>) =>
        LET rl == SplitLF(result)
        IN  /\ result[1] # LF
            /\ result[Len(result)] # LF
            /\ HasContent(rl[1])
            /\ HasContent(rl[Len(rl)])

\* A call whose concatenated text began and ended with blank lines, some of
\* them holding spaces, returned a non-empty result.
BoundaryBlankLinesTrimmed ==
    LET cl == SplitLF(combined)
    IN  /\ Done
        /\ result # <<>>
        /\ Len(cl) >= 4
        /\ cl[1] # <<>> /\ AllSpaceTab(cl[1])
        /\ cl[Len(cl)] = <<>>
        /\ cl[Len(cl) - 1] # <<>> /\ AllSpaceTab(cl[Len(cl) - 1])

\* C6: the result holds no run of three or more newline characters, so that
\* between two consecutive non-blank lines of it there is at most one blank
\* line, also when the blank lines of the input held spaces or tabs or came
\* from interpolated values.
NoRunOfThreeNewlines ==
    Done =>
        LET rl == SplitLF(result)
        IN  /\ \A k \in 1..(Len(result) - 2) :
                   ~(result[k] = LF /\ result[k + 1] = LF /\ result[k + 2] = LF)
            /\ \A k \in 1..(Len(rl) - 1) :
                   ~(AllSpaceTab(rl[k]) /\ AllSpaceTab(rl[k + 1]))

\* An interpolated value brought two consecutive blank lines, one of them
\* holding a space, between two lines of content.
BlankRunFromValueCollapsed ==
    /\ Done
    /\ \E g \in Gaps : Len(LinesOf(Stringify(values[g + 1]))) >= 3
    /\ \E k \in 2..(Len(lines) - 2) :
           /\ HasContent(lines[k - 1])
           /\ AllSpaceTab(lines[k]) /\ AllSpaceTab(lines[k + 1])
           /\ lines[k] # <<>> \/ lines[k + 1] # <<>>
           /\ HasContent(lines[k + 2])

-----------------------------------------------------------------------------
(* C7.  The common margin.                                                 *)

\* The non-blank lines among ls: those whose trimmed content is not empty.
ContentLines(ls) == SelectSeq(ls, HasContent)

\* Every line of ls begins with the same m characters, all spaces or tabs.
SharePrefix(ls, m) ==
    \A k \in 1..Len(ls) :
        /\ Len(ls[k]) >= m
        /\ SubSeq(ls[k], 1, m) = SubSeq(ls[1], 1, m)
        /\ AllSpaceTab(SubSeq(ls[k], 1, m))

\* C7: whenever the non-blank lines of the pre-dedent text (boundary blank
\* lines trimmed) share a common leading space/tab prefix of length M, M being
\* the margin (one of them has exactly M leading spaces and tabs), the
\* non-blank lines of the result are those lines, in order, with exactly that
\* prefix (and their trailing spaces and tabs) removed; and a non-empty
\* result has a line that starts at column 0 with a character that is neither
\* space nor tab.
CommonMarginRemoved ==
    (Done /\ lines # <<>>) =>
        LET before == ContentLines(lines)
            after  == ContentLines(SplitLF(result))
        IN  /\ \A M \in 0..Len(before[1]) :
                   (/\ SharePrefix(before, M)
                    /\ \E k \in 1..Len(before) : Len(LeadingRun(before[k], SpaceTab)) = M)
                   => /\ Len(after) = Len(before)
                      /\ \A k \in 1..Len(before) :
                             before[k] = SubSeq(before[1], 1, M) \o after[k]
                                             \o TrailingRun(before[k], SpaceTab)
            /\ result # <<>>
            /\ \E k \in 1..Len(SplitLF(result)) :
                   /\ SplitLF(result)[k] # <<>>
                   /\ SplitLF(result)[k][1] \notin SpaceTab

\* A text whose non-blank lines share a margin of at least one character, one
\* line indented deeper than another, with a blank line shorter than the
\* margin between them.
MarginOfIndentedText ==
    LET before == ContentLines(lines)
    IN  /\ Done
        /\ minIndent >= 1
        /\ Len(before) >= 2
        /\ SharePrefix(before, minIndent)
        /\ \E k \in 1..Len(before) : Len(LeadingRun(before[k], SpaceTab)) > minIndent
        /\ \E k \in 1..Len(lines) : lines[k] = <<>>

-----------------------------------------------------------------------------
(* C8.  A single segment that is already normalized.                       *)

NoLineEndsInSpaceTab(s) ==
    \A l \in {SplitLF(s)[k] : k \in 1..Len(SplitLF(s))} :
        l = <<>> \/ l[Len(l)] \notin SpaceTab

NoThreeNewlines(s) ==
    \A k \in 1..(Len(s) - 2) : ~(s[k] = LF /\ s[k + 1] = LF /\ s[k + 2] = LF)

\* The call is html([s]) for some string s.
SingleSegment == Len(strings) = 1 /\ values = <<>>

\* C8 as stated: for every string s that has no leading or trailing blank
\* line, no line ending in a space or tab and no run of three or more
\* newlines, html([s]) returns s unchanged.
NormalizedSegmentUnchangedAsStated ==
    (Done /\ SingleSegment) =>
        LET s  == strings[1]
            sl == LinesOf(s)
        IN  (/\ HasContent(sl[1])
             /\ HasContent(sl[Len(sl)])
             /\ NoLineEndsInSpaceTab(s)
             /\ NoThreeNewlines(s))
            => result = s

\* The preconditions of C8 amended.
AlreadyNormalized(s) ==
    LET sl == SplitLF(s)
    IN  /\ \A k \in 1..Len(s) : s[k] # CR
        /\ HasContent(sl[1])
        /\ HasContent(sl[Len(sl)])
        /\ \E k \in 1..Len(sl) : HasContent(sl[k]) /\ sl[k][1] \notin SpaceTab
        /\ NoLineEndsInSpaceTab(s)
        /\ NoThreeNewlines(s)

\* C8 amended: for every string s that holds no \r, whose first and last
\* lines each hold a character that is not white space, one of whose
\* non-blank lines starts at column 0 (the common margin is 0), and that has
\* no line ending in a space or tab and no run of three or more newlines,
\* html([s]) returns s unchanged.
NormalizedSegmentUnchanged ==
    (Done /\ SingleSegment /\ AlreadyNormalized(strings[1])) => result = strings[1]

\* An already normalized text with an indented line and an empty line.
NormalizedTextReturned ==
    /\ Done
    /\ SingleSegment
    /\ AlreadyNormalized(strings[1])
    /\ \E k \in 1..Len(lines) : lines[k] # <<>> /\ lines[k][1] \in SpaceTab
    /\ \E k \in 1..Len(lines) : lines[k] = <<>>

-----------------------------------------------------------------------------
(* C9.  Runs of blank lines.                                               *)

RunExpected ==
    <<"a", LF, LF, "b">>

\* The positions in ls of the lines that hold content, in order.
ContentPositions(ls) ==
    SelectSeq([k \in 1..Len(ls) |-> k], LAMBDA k : HasContent(ls[k]))

\* C9: two non-blank lines that the input separates by k >= 2 blank lines
\* (lines of spaces and tabs only) are separated in the result by exactly one
\* empty line, as ["a", "", "", "", "b"] gives "a\n\nb"; separated by exactly
\* one blank line they stay separated by exactly one, and adjacent non-blank
\* lines stay adjacent.
BlankRunsKeepOneLine ==
    Done =>
        LET il == SplitLF(combined)
            rl == SplitLF(result)
            ip == ContentPositions(il)
            rp == ContentPositions(rl)
        IN  /\ Len(rp) = Len(ip)
            /\ \A n \in 1..(Len(ip) - 1) :
                   (\A m \in (ip[n] + 1)..(ip[n + 1] - 1) : AllSpaceTab(il[m])) =>
                       /\ rp[n + 1] - rp[n] - 1 = (IF ip[n + 1] - ip[n] - 1 >= 1 THEN 1 ELSE 0)
                       /\ \A m \in (rp[n] + 1)..(rp[n + 1] - 1) : rl[m] = <<>>
            /\ Called(<<RunInput>>, <<>>) => result = RunExpected

\* html(["a\n\n\n\nb"]) returned "a\n\nb".
BlankRunExampleReturned ==
    Done /\ Called(<<RunInput>>, <<>>) /\ result = RunExpected

-----------------------------------------------------------------------------
(* C10.  Nothing but blank lines.                                          *)

\* C10: if every line of the concatenated text is blank (only white space),
\* or there is no segment at all, html returns the empty string without
\* computing a margin or dedenting; [ "   \n\n  \n" ] gives "".
BlankTextGivesEmptyString ==
    Done =>
        LET il == SplitLF(combined)
        IN  (strings = <<>> \/ \A k \in 1..Len(il) : ~HasContent(il[k])) =>
                /\ result = <<>>
                /\ minIndent = NotComputed
                /\ dedented = <<>>

\* html(["   \n\n  \n"]) returned "".
BlankOnlyExampleReturned ==
    Done /\ Called(<<BlankOnly>>, <<>>) /\ result = <<>> /\ lines = <<>>

-----------------------------------------------------------------------------
(* C11.  A block that html returned, passed as a value.                    *)

\* The last line of s: what follows its last line break.
LastLine(s) == LastChars(s, Column(s))

\* b has several lines and is a text html returns: html([b]) is b.
NormalizedBlock(b) == HasLF(b) /\ Html(<<b>>, <<>>) = b

\* The lines bl that hold content stand in rl, in order from line o + 1 on,
\* each behind shift spaces/tabs.
PlacedIn(rl, bl, o, shift) ==
    \A k \in 1..Len(bl) :
        HasContent(bl[k]) =>
            /\ o + k <= Len(rl)
            /\ Len(rl[o + k]) >= shift + Len(bl[k])
            /\ AllSpaceTab(SubSeq(rl[o + k], 1, shift))
            /\ SubSeq(rl[o + k], shift + 1, shift + Len(bl[k])) = bl[k]

\* C11 as stated: if a multi-line block B that html returned is the value of
\* a gap whose preceding segment ends in a last line of K spaces/tabs only,
\* every non-blank line of B stands in the result, in order, indented by
\* K - M plus its indentation inside B, M being the common margin removed.
NestedBlockKeepsIndentationAsStated ==
    Done =>
        \A g \in Gaps :
            LET seg == strings[g + 1]
                v   == values[g + 1]
                K   == Column(seg)
                rl  == SplitLF(result)
            IN  (v.kind = "string" /\ NormalizedBlock(v.str) /\ AllSpaceTab(LastLine(seg))) =>
                    /\ K - minIndent >= 0
                    /\ \E o \in 0..Len(rl) : PlacedIn(rl, SplitLF(v.str), o, K - minIndent)

\* C11 amended: the same, for a gap whose line holds nothing but those K
\* spaces/tabs before the value: the segment's last line is the last line of
\* all the text before the gap.
NestedBlockKeepsIndentation ==
    Done =>
        \A g \in Gaps :
            LET seg == strings[g + 1]
                v   == values[g + 1]
                K   == Column(seg)
                rl  == SplitLF(result)
            IN  (/\ v.kind = "string" /\ NormalizedBlock(v.str)
                 /\ AllSpaceTab(LastLine(seg))
                 /\ Column(TextBefore(g)) = K) =>
                    /\ K - minIndent >= 0
                    /\ \E o \in 0..Len(rl) : PlacedIn(rl, SplitLF(v.str), o, K - minIndent)

\* A block with an indented line, behind a line of spaces/tabs deeper than
\* the margin, in the second gap.
NestedBlockPlaced ==
    /\ Done
    /\ \E g \in Gaps :
           LET seg == strings[g + 1]
               v   == values[g + 1]
           IN  /\ g > 0
               /\ v.kind = "string" /\ NormalizedBlock(v.str)
               /\ AllSpaceTab(LastLine(seg))
               /\ Column(TextBefore(g)) = Column(seg)
               /\ Column(seg) > minIndent
               /\ \E k \in 1..Len(SplitLF(v.str)) :
                      HasContent(SplitLF(v.str)[k]) /\ SplitLF(v.str)[k][1] \in SpaceTab

-----------------------------------------------------------------------------
(* C12.  Content and order.                                                *)

\* s with every character of cls removed.
Without(s, cls) == DropAt(s, {k \in 1..Len(s) : s[k] \in cls})

\* segment[0], str(value[0]), segment[1], ..., segment[N-1]
Interleaved(strs, vals) ==
    JoinEmpty([k \in 1..Len(strs) |->
        IF k <= Len(vals) /\ k < Len(strs) THEN strs[k] \o Stringify(vals[k]) ELSE strs[k]])

\* C12 as stated: for N segments and at most N - 1 values, the result with
\* every space, tab and newline removed is segment[0], str(value[0]), ...,
\* segment[N-1] with every space, tab, \r and \n removed.
ContentAndOrderPreservedAsStated ==
    (Done /\ Len(values) < Len(strings)) =>
        Without(result, {SP, TAB, LF})
            = Without(Interleaved(strings, values), {SP, TAB, CR, LF})

\* C12 amended: the same, when every line of the concatenated text that
\* holds white space only holds spaces and tabs only.
ContentAndOrderPreserved ==
    (/\ Done /\ Len(values) < Len(strings)
     /\ \A l \in {SplitLF(combined)[k] : k \in 1..Len(SplitLF(combined))} :
            TrimIsEmpty(l) => AllSpaceTab(l)) =>
        Without(result, {SP, TAB, LF})
            = Without(Interleaved(strings, values), {SP, TAB, CR, LF})

\* Two values between three segments, one of them indented, white space
\* removed around content that stays.
ContentKeptAroundValues ==
    /\ Done
    /\ Len(strings) = 3 /\ Len(values) = 2
    /\ \A l \in {SplitLF(combined)[k] : k \in 1..Len(SplitLF(combined))} :
           TrimIsEmpty(l) => AllSpaceTab(l)
    /\ \E g \in Gaps : InsertedPart(g) # Stringify(values[g + 1])
    /\ \A k \in 1..3 : HasContent(strings[k])
    /\ result # combined

-----------------------------------------------------------------------------
(* C13.  null, undefined and the other values.                             *)

\* vals with the empty string in the place of every null and undefined.
NullsAsEmptyStrings(vals) ==
    [k \in 1..Len(vals) |->
        IF vals[k].kind \in {"null", "undefined"} THEN Str(<<>>) ELSE vals[k]]

\* C13: replacing the null and undefined values by "" does not change the
\* result, and every other value contributes its string conversion: the
\* number 0 contributes "0" and the boolean false contributes "false".
NullIsEmptyStringOthersConverted ==
    Done =>
        /\ result = Html(strings, NullsAsEmptyStrings(values))
        /\ \A g \in Gaps :
               /\ values[g + 1].kind \in {"null", "undefined"} => InsertedPart(g) = <<>>
               /\ values[g + 1] = Num(0) => InsertedPart(g) = <<"0">>
               /\ values[g + 1] = Num(-12) => InsertedPart(g) = <<"-", "1", "2">>
               /\ values[g + 1] = Bool(FALSE) => InsertedPart(g) = <<"f", "a", "l", "s", "e">>
               /\ values[g + 1] = Bool(TRUE) => InsertedPart(g) = <<"t", "r", "u", "e">>

\* html`a${undefined} b${false}c` returned "a bfalsec".
UndefinedAndFalseBetweenSegments ==
    /\ Done
    /\ Called(<<<<"a">>, <<SP, "b">>, <<"c">>>>, <<Undefined, Bool(FALSE)>>)
    /\ result = <<"a", SP, "b", "f", "a", "l", "s", "e", "c">>

-----------------------------------------------------------------------------
(* C14.  Fewer values than gaps.                                           *)

\* vals followed by as many empty strings as it takes to make n values.
PaddedTo(vals, n) ==
    [k \in 1..n |-> IF k <= Len(vals) THEN vals[k] ELSE Str(<<>>)]

\* C14: with N segments and fewer than N - 1 values html returns what it
\* returns with the empty string supplied for every missing value.
MissingValuesAreEmptyStrings ==
    (Done /\ Len(values) < Len(strings) - 1) =>
        result = Html(strings, PaddedTo(values, Len(strings) - 1))

\* Three segments with content in the last one and a single value.
ReturnedWithMissingValue ==
    /\ Done
    /\ Len(strings) = 3 /\ Len(values) = 1
    /\ HasContent(strings[3])
    /\ Len(parts) = 4
    /\ result # <<>>

-----------------------------------------------------------------------------
(* C15.  More values than gaps.                                            *)

-----------------------------------------------------------------------------
(* C16.  Termination.                                                      *)

-----------------------------------------------------------------------------
(* C17.  Invocations side by side.                                         *)

\* The locals of the single invocation of Spec, as StepOf takes them.
Locals ==
    [values |-> values, pc |-> pc, i |-> i, parts |-> parts, combined |-> combined,
     lines |-> lines, minIndent |-> minIndent, dedented |-> dedented, result |-> result]

\* Every step of the single invocation is the step StepOf describes.
StepsAreStepOf == [][Locals' = StepOf(Locals, strings)]_vars

\* C17: whatever the interleaving of the steps of the invocations, each one
\* leaves the segments and the values its caller handed over as they were,
\* and returns what html returns for them when it runs alone.
InvocationsAreIsolated ==
    \A c \in DOMAIN invocations :
        LET inv == invocations[c]
        IN  /\ templates[inv.site] = inv.given.strs
            /\ inv.locals.values = inv.given.vals
            /\ inv.locals.pc = "done" =>
                   inv.locals.result = Html(inv.given.strs, inv.given.vals)

\* A has returned a text while B, called from the same site with other
\* values, is in the middle of its loops.
ReturnedWhileOtherRuns ==
    /\ DOMAIN invocations = Invocations
    /\ invocations["A"].site = invocations["B"].site
    /\ invocations["A"].given.vals # invocations["B"].given.vals
    /\ invocations["A"].locals.pc = "done"
    /\ invocations["A"].locals.result # <<>>
    /\ invocations["B"].locals.pc = "pop"
    /\ invocations["B"].locals.parts # <<>>

-----------------------------------------------------------------------------
(* C18.  esc of lib.js.                                                    *)

\* C18: a call of esc, whatever its argument, does not fail and returns a
\* string: the empty string for null and undefined, otherwise the string
\* form of the argument with & < > " ' replaced by &amp; &lt; &gt; &quot;
\* &#039;, the ampersand first.
EscReturnsEscapedArgument ==
    escCall.pc \notin {"none", "called"} =>
        /\ escCall.pc = "returned"
        /\ escCall.returned = EscapeOf(escCall.ms)

-----------------------------------------------------------------------------
(* C19.  Values whose line breaks are \r.                                  *)

\* vals with \n in the place of every \r of the strings that hold no \n.
LoneCRsAsLF(vals) ==
    [k \in 1..Len(vals) |->
        IF vals[k].kind = "string" /\ ~HasLF(vals[k].str)
        THEN Str(ReplaceCR(vals[k].str)) ELSE vals[k]]

\* C19: a value whose line breaks are \r only is inserted as a multi-line
\* value, its \r turned into \n with the local indent behind each: the
\* result is the one of the same value written with \n.
LoneCRValueIndented ==
    Done => result = Html(strings, LoneCRsAsLF(values))

-----------------------------------------------------------------------------
(* C20.  The local indent.                                                 *)

\* The local indent as the documentation describes it: the last line of the
\* segment (the whole segment when it has no line break) when it consists
\* of spaces and tabs only, the empty string otherwise.
IndentOfLastLine(seg) == IF AllSpaceTab(LastLine(seg)) THEN LastLine(seg) ELSE <<>>

\* C20: what is inserted for a multi-line value of gap i is the value with
\* the indent of the last line of segment[i] behind each of its newlines,
\* whatever the earlier segments and values are.
LocalIndentFromOwnSegment ==
    Done =>
        \A g \in Gaps :
            LET v == Stringify(values[g + 1])
            IN  InsertedPart(g) =
                    IF HasLF(v)
                    THEN IndentAfterLF(NormalizeNewlines(v), IndentOfLastLine(strings[g + 1]))
                    ELSE v

\* A multi-line value in the second gap, behind a segment of spaces/tabs
\* that follows other text on its line: the indent is that segment.
IndentTakenBehindOtherText ==
    /\ Done
    /\ \E g \in Gaps :
           /\ g >= 1
           /\ HasLF(Stringify(values[g + 1]))
           /\ strings[g + 1] # <<>>
           /\ IndentOfLastLine(strings[g + 1]) = strings[g + 1]
           /\ Column(TextBefore(g)) > Len(strings[g + 1])
           /\ InsertedPart(g) # Stringify(values[g + 1])

-----------------------------------------------------------------------------
(* C21.  The text inserted for a value.                                    *)

\* C21: for a value that contains a \n, the text inserted at gap i has the
\* lines of the newline-normalized value, the first one as it is and every
\* later one behind the local indent with its own leading white space kept;
\* the inserted text holds no \r.  A value without any line break is
\* inserted unchanged.
InsertedTextIsIndentedValue ==
    Done =>
        \A g \in Gaps :
            LET v      == Stringify(values[g + 1])
                indent == LocalIndent(strings[g + 1])
                vl     == LinesOf(v)
                il     == SplitLF(InsertedPart(g))
            IN  /\ HasLF(v) =>
                       /\ Len(il) = Len(vl)
                       /\ il[1] = vl[1]
                       /\ \A k \in 2..Len(vl) : il[k] = indent \o vl[k]
                       /\ \A k \in 1..Len(InsertedPart(g)) : InsertedPart(g)[k] # CR
                /\ (\A k \in 1..Len(v) : v[k] \notin {CR, LF}) => InsertedPart(g) = v

\* A value whose second line starts with white space of its own, inserted
\* behind a local indent.
IndentedLineKeepsOwnSpaces ==
    /\ Done
    /\ \E g \in Gaps :
           LET v  == Stringify(values[g + 1])
               vl == LinesOf(v)
           IN  /\ HasLF(v)
               /\ LocalIndent(strings[g + 1]) # <<>>
               /\ vl[1] # <<>>
               /\ vl[2] # <<>> /\ vl[2][1] \in SpaceTab
               /\ SplitLF(InsertedPart(g))[2] = LocalIndent(strings[g + 1]) \o vl[2]

-----------------------------------------------------------------------------
(* C22.  The common margin.                                                *)

\* The numbers of leading spaces/tabs of the lines of text that hold
\* content.
ContentIndents(text) ==
    {Len(LeadingRun(l, SpaceTab)) :
        l \in {LinesOf(text)[k] : k \in {n \in 1..Len(LinesOf(text)) : HasContent(LinesOf(text)[n])}}}

\* C22: once computed, the margin is the least number of leading
\* spaces/tabs among the non-blank lines of the concatenated text, values
\* included; it is computed after the boundary blank lines are gone and
\* does not change afterwards; lines of white space only do not count.
MarginIsLeastContentIndent ==
    minIndent # NotComputed =>
        /\ pc \in {"collapse", "done"}
        /\ ContentIndents(JoinEmpty(parts)) # {}
        /\ minIndent = MinOfSet(ContentIndents(JoinEmpty(parts)))
        /\ ~TrimIsEmpty(lines[1]) /\ ~TrimIsEmpty(lines[Len(lines)])

\* A margin of at least two, set by a line of a value, with an interior
\* line of fewer spaces/tabs and nothing else.
ShortBlankLineBelowMargin ==
    /\ Done
    /\ minIndent >= 2
    /\ \E g \in Gaps : HasLF(InsertedPart(g))
    /\ \E k \in 2..(Len(lines) - 1) :
           AllSpaceTab(lines[k]) /\ Len(lines[k]) < minIndent

-----------------------------------------------------------------------------
(* C23.  Dedenting short lines.                                            *)

\* C23: every line, blank or not, loses min(margin, number of its leading
\* spaces/tabs) leading characters and then all its trailing spaces/tabs;
\* no line is lost, and a line of spaces/tabs only, shorter than the margin
\* or not, is left as an empty line.
EveryLineDedented ==
    pc \in {"collapse", "done"} /\ minIndent # NotComputed =>
        /\ Len(dedented) = Len(lines)
        /\ \A k \in 1..Len(lines) :
               LET lead == Len(LeadingRun(lines[k], SpaceTab))
                   cut  == IF minIndent < lead THEN minIndent ELSE lead
                   rest == SubSeq(lines[k], cut + 1, Len(lines[k]))
                   d    == dedented[k]
               IN  /\ Len(d) <= Len(rest)
                   /\ d = SubSeq(rest, 1, Len(d))
                   /\ AllSpaceTab(SubSeq(rest, Len(d) + 1, Len(rest)))
                   /\ d # <<>> => d[Len(d)] \notin SpaceTab
                   /\ AllSpaceTab(lines[k]) => d = <<>>

\* An interior line of spaces/tabs shorter than the margin was left as an
\* empty line, next to a line indented deeper than the margin.
ShortBlankLineEmptied ==
    /\ Done
    /\ minIndent >= 2
    /\ \E k \in 2..(Len(lines) - 1) :
           /\ lines[k] # <<>> /\ AllSpaceTab(lines[k]) /\ Len(lines[k]) < minIndent
           /\ dedented[k] = <<>>
    /\ \E k \in 1..Len(lines) :
           HasContent(lines[k]) /\ Len(LeadingRun(lines[k], SpaceTab)) > minIndent

-----------------------------------------------------------------------------
(* C24.  What counts as white space.                                       *)

\* ls without the lines in front of the first and behind the last of those
\* whose position is in kept.
BetweenKept(ls, kept) ==
    IF kept = {} THEN <<>> ELSE SubSeq(ls, MinOfSet(kept), MaxOfSet(kept))

\* The least number of leading spaces/tabs among the lines at the positions
\* counted, 0 when there is none.
LeastIndent(ls, counted) ==
    IF counted = {} THEN 0
    ELSE MinOfSet({Len(LeadingRun(ls[k], SpaceTab)) : k \in counted})

\* C24 as stated: a line is blank exactly when it consists of spaces and
\* tabs only: the boundary loops remove such lines and no others, and the
\* margin is the least indent of all the other lines, those holding a
\* form feed only included.
OnlySpaceAndTabAreBlank ==
    pc \in {"check", "collapse", "done"} =>
        LET all == SplitLF(combined)
        IN  /\ lines = BetweenKept(all, {k \in 1..Len(all) : ~AllSpaceTab(all[k])})
            /\ minIndent # NotComputed =>
                   minIndent = LeastIndent(lines, {k \in 1..Len(lines) : ~AllSpaceTab(lines[k])})

\* C24 amended: a line is blank exactly when it consists of white space
\* only, form feed and the other white space trim() removes included: the
\* boundary loops remove such lines and no others, and the margin is the
\* least indent of the lines holding some other character; the indent of a
\* line counts its leading spaces and tabs only.
WhiteSpaceOnlyLinesAreBlank ==
    pc \in {"check", "collapse", "done"} =>
        LET all == SplitLF(combined)
        IN  /\ lines = BetweenKept(all, {k \in 1..Len(all) : HasContent(all[k])})
            /\ minIndent # NotComputed =>
                   minIndent = LeastIndent(lines, {k \in 1..Len(lines) : HasContent(lines[k])})

\* Lines of a form feed only were removed at both ends, and one more
\* inside, at column 0, did not lower a margin of 1.
FormFeedLinesTreatedAsBlank ==
    /\ Done
    /\ LET all == SplitLF(combined)
       IN  /\ all[1] = <<FF>> /\ all[Len(all)] = <<FF>>
           /\ Len(lines) = Len(all) - 2
    /\ \E k \in 1..Len(lines) : lines[k] = <<FF>>
    /\ minIndent = 1

-----------------------------------------------------------------------------
(* C25.  Line endings of the concatenated text.                            *)

\* strs with \n in the place of every \r\n.
CrLfAsLF(strs) == [k \in 1..Len(strs) |-> ReplaceCRLF(strs[k])]

\* The line breaks of s are all written \r\n.
WrittenWithCrLf(s) ==
    \A p \in 1..Len(s) :
        /\ s[p] = CR => (p < Len(s) /\ s[p + 1] = LF)
        /\ s[p] = LF => (p > 1 /\ s[p - 1] = CR)

\* C25: the result holds no \r, and when the line breaks of the segments
\* are all written \r\n it is the result of the same call with the segments
\* written with \n.
CrLfSegmentsAsLF ==
    Done =>
        /\ \A k \in 1..Len(result) : result[k] # CR
        /\ (\A n \in 1..Len(strings) : WrittenWithCrLf(strings[n])) =>
               result = Html(CrLfAsLF(strings), values)

-----------------------------------------------------------------------------
(* C26.  Uniform dedent.                                                   *)

\* C26: with M the margin, the non-blank lines of the result are, in order
\* and number, the non-blank lines left after the boundary blank lines were
\* removed, each without its first M characters (spaces/tabs) and without
\* its trailing spaces/tabs; two non-blank lines differ in indentation by
\* as much after as before.
NonBlankLinesDedentedAlike ==
    (Done /\ minIndent # NotComputed) =>
        LET cl == ContentLines(lines)
            rl == ContentLines(SplitLF(result))
            Lead(l) == Len(LeadingRun(l, SpaceTab))
        IN  /\ Len(rl) = Len(cl)
            /\ \A k \in 1..Len(cl) :
                   /\ AllSpaceTab(SubSeq(cl[k], 1, minIndent))
                   /\ Len(cl[k]) > minIndent
                   /\ rl[k] = SubSeq(cl[k], minIndent + 1,
                                     Len(cl[k]) - Len(TrailingRun(cl[k], SpaceTab)))
            /\ \A j, k \in 1..Len(cl) : Lead(rl[j]) - Lead(rl[k]) = Lead(cl[j]) - Lead(cl[k])

\* A margin of one taken from a line that starts with a tab and from a
\* line that starts with two spaces.
TabAndSpaceLinesDedented ==
    /\ Done
    /\ minIndent = 1
    /\ \E j, k \in 1..Len(lines) :
           /\ HasContent(lines[j]) /\ lines[j][1] = TAB
           /\ HasContent(lines[k]) /\ lines[k][1] = SP /\ lines[k][2] = SP
           /\ dedented[k][1] = SP

-----------------------------------------------------------------------------
(* C27.  The indentation of the template in the source.                    *)

Spaces(k) == [n \in 1..k |-> SP]

\* The positions of s behind which a new line starts: a \n, or a \r that
\* no \n follows.
LineBreakEnds(s) ==
    {p \in 1..Len(s) : s[p] = LF \/ (s[p] = CR /\ ~(p < Len(s) /\ s[p + 1] = LF))}

\* s with k spaces behind every line break.
IndentedAfterBreaks(s, k) ==
    JoinEmpty([p \in 1..Len(s) |->
        IF p \in LineBreakEnds(s) THEN <<s[p]>> \o Spaces(k) ELSE <<s[p]>>])

\* The template written k columns further to the right: k spaces at the
\* start of segment[0] and behind every line break of every segment.
ShiftedTemplate(strs, k) ==
    [n \in 1..Len(strs) |->
        IF n = 1 THEN Spaces(k) \o IndentedAfterBreaks(strs[n], k)
        ELSE IndentedAfterBreaks(strs[n], k)]

\* C27 as stated: for every k, the template written k columns further to
\* the right gives, with the same values, the same result.
TemplateIndentationIrrelevantAsStated ==
    Done => \A k \in 1..2 : Html(ShiftedTemplate(strings, k), values) = result

\* The value of gap g, if it holds a line break, holds a \n and stands at
\* the start of a line of the template: behind a last line of segment[g]
\* of spaces/tabs only that starts the template or follows a line break of
\* that segment.
ValueStartsTemplateLine(g) ==
    LET v   == Stringify(values[g + 1])
        seg == strings[g + 1]
    IN  (\E n \in 1..Len(v) : v[n] \in {CR, LF}) =>
            /\ HasLF(v)
            /\ AllSpaceTab(LastLine(seg))
            /\ g = 0 \/ \E n \in 1..Len(seg) : seg[n] \in {CR, LF}

\* C27 amended: the same, when every value that holds a line break holds a
\* \n and stands at the start of a line of the template, and no segment
\* ends in \r.
TemplateIndentationIrrelevant ==
    (/\ Done
     /\ \A g \in Gaps : ValueStartsTemplateLine(g)
     /\ \A n \in 1..Len(strings) : strings[n] = <<>> \/ strings[n][Len(strings[n])] # CR) =>
        \A k \in 1..2 : Html(ShiftedTemplate(strings, k), values) = result

\* A returned call with a value of several lines on a template line of its
\* own, behind an indent of one character at least, in a template that meets
\* the two conditions; the value's later lines depend on that indent.
ShiftedTemplateWithNestedValue ==
    /\ Done
    /\ \A g \in Gaps : ValueStartsTemplateLine(g)
    /\ \A n \in 1..Len(strings) : strings[n] = <<>> \/ strings[n][Len(strings[n])] # CR
    /\ \E g \in Gaps :
           /\ HasLF(Stringify(values[g + 1]))
           /\ HasContent(Stringify(values[g + 1]))
           /\ LocalIndent(strings[g + 1]) # <<>>
           /\ \E n \in 1..Len(strings[g + 1]) : strings[g + 1][n] \in {CR, LF}
    /\ HasLF(result)
    /\ Html(ShiftedTemplate(strings, 2), values) = result
    /\ Combined(ShiftedTemplate(strings, 2), values) # Combined(strings, values)

------------------------------------------------------------------------------
(* C28.  A second pass over the result.                                    *)

\* C28: for all segments and values, with r the result of the call,
\* html([r]) = r: r holds no \r, no line ending in a space or tab and no run
\* of three or more newlines, and when r is not empty its first and last
\* lines hold content and one of its content lines starts at column 0.
SecondPassChangesNothing ==
    Done =>
        /\ Html(<<result>>, <<>>) = result
        /\ \A k \in 1..Len(result) : result[k] # CR
        /\ NoLineEndsInSpaceTab(result)
        /\ NoThreeNewlines(result)
        /\ result # <<>> =>
               /\ HasContent(LinesOf(result)[1])
               /\ HasContent(LinesOf(result)[Len(LinesOf(result))])
               /\ MinIndent(LinesOf(result)) = 0

\* A returned call whose first pass took away a margin, a blank first line
\* and a trailing space or tab, and left a result of several lines with an
\* indented line and an empty line.
SecondPassOverReworkedText ==
    /\ Done
    /\ LET ls == LinesOf(Combined(strings, values))
           rl == LinesOf(result)
       IN  /\ ~HasContent(ls[1])
           /\ MinIndent(TrimBlankLines(ls)) > 0
           /\ \E k \in 1..Len(ls) : HasContent(ls[k]) /\ ls[k][Len(ls[k])] \in SpaceTab
           /\ \E k \in 1..Len(rl) : HasContent(rl[k]) /\ rl[k][1] \in SpaceTab
           /\ \E k \in 1..Len(rl) : rl[k] = <<>>
    /\ Html(<<result>>, <<>>) = result

------------------------------------------------------------------------------
(* C29.  The list setters keep the caller's array.                         *)

\* The step is an add call on the list: an entry more in the list's array.
Added(list) ==
    /\ page' = page
    /\ Len(arrays'[page[list]]) = Len(arrays[page[list]]) + 1

====
